---- MODULE Spec2Model ----
(***************************************************************************)
(* morp: a message queue abstraction over several backends.                *)
(*                                                                         *)
(* The model covers the backend-neutral Interface (src/morp/interface/     *)
(* base.py), the Postgres engine (src/morp/interface/postgres.py), the     *)
(* Dropfile engine (src/morp/interface/dropfile.py) and the Message        *)
(* receive context (src/morp/message.py).  One producer and the members of *)
(* Consumers are independent processes sharing one queue.  Every backend   *)
(* round trip (one SQL statement, one file system call) is one step, so    *)
(* the steps of different processes interleave freely.                     *)
(*                                                                         *)
(* Time is a discrete clock `now`; delays and timeouts count its ticks.    *)
(*                                                                         *)
(* Three parts stand on their own: the calls of count, unsafe_clear and    *)
(* unsafe_delete between the queue operations (SpecAdmin), the connect and *)
(* close of one Interface object (SpecLifecycle), and the serializer and   *)
(* cipher of a message body (SpecCodec).  SpecDecode stores bodies that    *)
(* the consumer cannot decode, SpecClaim has two consumers on one message, *)
(* and SpecMessage is the Message classes of an application: the dispatch  *)
(* on the stored classpath and MORP_DISABLED.  SpecStale lets a handler    *)
(* settle its message itself beside a second consumer, SpecProcess runs    *)
(* the loop of Message.process on the queue, SpecErrors follows one        *)
(* exception through the except clauses around it, and SpecSqs is the      *)
(* delay of an SQS send.                                                   *)
(***************************************************************************)
EXTENDS Integers, Sequences, FiniteSets, TLC

\* ------------------------------------------------------------------ bounds
MaxMsgs == 2          \* messages the producer sends
MaxTime == 2          \* the clock stops here
MaxDelay == 1         \* largest explicit delay_seconds of a send or a ReleaseMessage
MaxCalls == 2         \* recv_for calls of all consumers together
MaxCalcCount == 30    \* largest _count tried by the backoff computation
MaxCalcDelay == 2     \* largest explicit delay tried by the backoff computation
MaxItems == 1         \* longest list or tuple among the values of a fields mapping
MaxLog == 4           \* calls made on the Interface object of the lifecycle
MaxSends == 2         \* Message.send calls of the application
MaxCount == 2         \* the largest count argument of Message.process
MaxSendDelay == 905   \* the largest delay_seconds handed to SQS._send

Consumers == {"c1", "c2"}
Ids == 1..MaxMsgs
None == "none"

\* ------------------------------------------------------- program constants
DefaultMaxTimeout == 3600
DefaultBackoffMultiplier == 5
SqsMaxDelaySeconds == 900

VARIABLES
    engine,       \* "postgres" | "dropfile": the interface class of the DSN
    options,      \* connection_config.options
    now,          \* the clock
    tableExists,  \* Postgres: the queue table exists
    rows,         \* Postgres: _id -> row of the queue table
    listening,    \* Postgres: the consumer's connection has executed LISTEN
    notified,     \* Postgres: a notification is unread on the consumer's socket
    files,        \* Dropfile: file name -> inode (linked, body, lock)
    prod,         \* the producer: position in send, the message being sent
    pc,           \* consumer -> position in recv_for
    kw,           \* consumer -> the kwargs of its recv_for call
    cur,          \* consumer -> the fields returned by Interface.recv
    loc,          \* consumer -> locals of the running interface call
    res,          \* consumer -> how the handler ended and what recv_for did
    hist,         \* _id -> what happened to the message (history variable)
    ncalls,       \* recv_for calls made so far
    calc,         \* a delay computation on its own: Interface.release, SQS._send
    adm,          \* the process calling count, unsafe_clear and unsafe_delete
    iface,        \* one Interface object: its connected flag, its backend calls
    codec,        \* one body on its way through the serializer and the cipher
    undecodable,  \* ids whose stored body the consumers' key and serializer
                  \* cannot turn back into fields
    app,          \* Message objects of an application: MORP_DISABLED, the
                  \* queue their classes share, what was sent and received
    exc,          \* one exception on its way from where it is raised, through
                  \* the except clauses around it, to the caller
    proc          \* one Message.process call: its loop counter, where it
                  \* stands, what it has received and dispatched

vars == <<engine, options, now, tableExists, rows, listening, notified, files,
          prod, pc, kw, cur, loc, res, hist, ncalls, calc, adm, iface, codec,
          undecodable, app, exc, proc>>

pgVars == <<tableExists, rows, listening, notified>>

\* What the queue operations leave alone.
apart == <<calc, adm, iface, codec, undecodable, app, exc, proc>>

Unset == 0 - 1      \* an option the DSN does not set, a result not computed yet

\* An exception of class cls as it is raised.  The classes: builtins
\* (RuntimeError, OSError, KeyboardInterrupt), a class of the backend's
\* library (psycopg.Error), a class the application defines (UserError),
\* and morp's own (exception.py: InterfaceError, ReleaseMessage, AckMessage).
Raised(cls) == [cls |-> cls, orig |-> cls, wraps |-> 0]

\* Message.process not called.
NoProc == [pc |-> "idle", max_count |-> 0, count |-> 0, dispatched |-> 0,
           timeouts |-> 0, released |-> 0]

\* No exception on its way.
NoExc == [op |-> None, origin |-> None, e |-> Raised(None), frames |-> <<>>]

Min(a, b) == IF a <= b THEN a ELSE b
Max(a, b) == IF a >= b THEN a ELSE b

\* ------------------------------------------------------------------ config
\* Connection.__init__: the two defaults every connection gets.
ConnectionOptions(given) ==
    [max_timeout |->
        IF given.max_timeout = Unset THEN DefaultMaxTimeout ELSE given.max_timeout,
     backoff_multiplier |->
        IF given.backoff_multiplier = Unset THEN DefaultBackoffMultiplier
        ELSE given.backoff_multiplier,
     backoff_amplifier |-> given.backoff_amplifier]

\* The option sets of the queue model: delays are counted in clock ticks, so
\* the DSN sets max_timeout and backoff_multiplier explicitly.
QueueOptionSets ==
    { ConnectionOptions([max_timeout |-> MaxDelay, backoff_multiplier |-> m,
                         backoff_amplifier |-> Unset]) : m \in {0, 1} }

\* ------------------------------------------------- Interface.release delay
\* The amplifier without the count as its default.
MutAmplifierOne(opts, count) ==
    IF opts.backoff_amplifier = Unset THEN 1 ELSE opts.backoff_amplifier

\* options.get("backoff_amplifier", count).
Amplifier(opts, count) ==
    IF opts.backoff_amplifier = Unset THEN count ELSE opts.backoff_amplifier

\* delay_seconds as Interface.release hands it to _release.
ReleaseDelaySeconds(opts, delay_seconds, count) ==
    LET d == Max(delay_seconds, 0)
    IN  IF d = 0 /\ count # 0
        THEN Min(opts.max_timeout, (count * opts.backoff_multiplier) * Amplifier(opts, count))
        ELSE d

\* ------------------------------------------------------------ record shapes
NoFile == [ts |-> 0, id |-> 0, count |-> 0]
NoFields == [id |-> 0, count |-> 0, body |-> 0, file |-> NoFile]
NoKw == [ack_on_recv |-> FALSE, quiet |-> FALSE, due |-> {}]
NoLoc == [timeout |-> 0, after |-> None, delay |-> 0, raise |-> FALSE,
          explicit |-> None, listing |-> <<>>, deadline |-> 0, fp |-> NoFile]
NoRes == [outcome |-> None, terminal |-> None, delay |-> 0, result |-> None]
NoHist == [queued |-> FALSE, sent |-> FALSE, avail |-> FALSE, acked |-> FALSE,
           notBefore |-> 0, delayed |-> FALSE, releases |-> 0]
IdleProd == [pc |-> "idle", id |-> 0, delay |-> 0, sent |-> 0, file |-> NoFile]
EmptyFn == [x \in {} |-> 0]
NoAdm == [last |-> None, count |-> 0, raised |-> FALSE, sentAt |-> 0]
NoIface == [connected |-> FALSE, log |-> <<>>, backend |-> <<>>]
BodySize == 1         \* the length of every message body, in the model's unit

Upd(f, c, v) == [f EXCEPT ![c] = v]

\* The positions of a consumer inside Interface.recv.
RecvPcs == {"get_raw1", "listen", "select", "get_raw2",
            "list", "open", "flock", "read", "skip_unlock", "skip_delete", "sleep"}

\* The positions of a consumer inside Interface.ack and Interface.release.
SettlePcs == {"ack", "ack_delete", "release", "rel_write", "rel_cleanup", "rel_delete"}

\* ---------------------------------------------------------------- the clock
\* A send or a release runs, or time passes for a waiting message: the recv
\* calls in progress are no longer calls during which nothing became READY.
Disturbed ==
    [c \in Consumers |->
        IF pc[c] \in RecvPcs THEN [kw[c] EXCEPT !.quiet = FALSE] ELSE kw[c]]

Tick ==
    /\ now < MaxTime
    /\ now' = now + 1
    /\ kw' = IF \E i \in DOMAIN hist : hist[i].avail THEN Disturbed ELSE kw
    /\ UNCHANGED <<engine, options, pgVars, files, prod, pc, cur, loc, res,
                   hist, ncalls, apart>>

\* ------------------------------------------------------------ Interface.send
\* Message.send -> Interface.send: the producer starts one send, of n at most.
Interface_send(d, n) ==
    /\ prod.pc = "idle"
    /\ prod.sent < n
    /\ prod' = [prod EXCEPT !.pc = IF engine = "postgres" THEN "insert" ELSE "create",
                            !.id = prod.sent + 1, !.delay = d,
                            !.sent = prod.sent + 1]
    /\ UNCHANGED <<engine, options, now, pgVars, files, pc, kw, cur, loc, res,
                   hist, ncalls, apart>>

\* A message sent with a delay that has elapsed, never delivered so far.
DueDelayed(i) ==
    /\ hist[i].sent /\ hist[i].delayed /\ hist[i].releases = 0
    /\ hist[i].avail /\ now > hist[i].notBefore

\* ------------------------------------------- the end of an Interface call
\* Interface.recv returned nothing (or raised): recv_for is left.
RecvOver(c, result) ==
    /\ pc' = Upd(pc, c, "exit")
    /\ loc' = Upd(loc, c, NoLoc)
    /\ res' = Upd(res, c, [NoRes EXCEPT !.result = result])

\* Interface.recv: _recv has claimed a message and _recv_to_fields raises on
\* its body (InvalidToken, UnpicklingError, JSONDecodeError).  The exception
\* leaves recv through connection() and recv_for at its first statement,
\* which stands before the try: no clause of recv_for runs, nothing is
\* yielded, no release and no ack is called.
RecvUndecodable(c) ==
    /\ RecvOver(c, "decode_error")
    /\ UNCHANGED cur

\* Interface.recv returned fields: recv_for yields the message to the handler.
RecvGot(c, fields) ==
    /\ pc' = Upd(pc, c, "handle")
    /\ loc' = Upd(loc, c, NoLoc)
    /\ cur' = Upd(cur, c, fields)
    /\ hist' = [hist EXCEPT ![fields.id].avail = FALSE]
    /\ UNCHANGED res

\* An Interface.ack/release call of consumer c is over: back in the handler
\* (the handler's own call) or out of recv_for (the context's call).
\* failed: the backend call raised.
SettleOver(c, kind, d, failed) ==
    IF loc[c].after = "handle" /\ ~failed
    THEN /\ pc' = Upd(pc, c, "handle")
         /\ loc' = Upd(loc, c, [NoLoc EXCEPT !.explicit = kind])
         /\ UNCHANGED res
    ELSE /\ pc' = Upd(pc, c, "exit")
         /\ loc' = Upd(loc, c, NoLoc)
         /\ res' = Upd(res, c, [res[c] EXCEPT
                       !.terminal = IF failed THEN "failed" ELSE kind,
                       !.delay = d,
                       !.result = IF failed \/ loc[c].raise THEN "raised"
                                  ELSE "returned"])

\* ================================================================ Postgres
\* The WHERE clause without its test of the status.
MutSelectableAnyStatus(row, valid) == row.valid <= valid

\* The WHERE clause of the claim's inner SELECT.
Postgres_selectable(row, valid) ==
    /\ row.valid <= valid
    /\ row.status # "processing"

\* ORDER BY _created ASC ... LIMIT 1 (ids are handed out in send order).
Postgres_first(valid) ==
    LET cand == {i \in DOMAIN rows : Postgres_selectable(rows[i], valid)}
    IN  IF ~tableExists \/ cand = {} THEN 0
        ELSE CHOOSE i \in cand :
               \A j \in cand : \/ rows[i].created < rows[j].created
                               \/ rows[i].created = rows[j].created /\ i <= j

\* Postgres._send: the INSERT; a missing table sends it to _create_table.
Postgres_send_insert ==
    /\ engine = "postgres"
    /\ prod.pc = "insert"
    /\ IF ~tableExists
       THEN /\ prod' = [prod EXCEPT !.pc = "create_table"]
            /\ UNCHANGED <<rows, hist>>
       ELSE /\ rows' = [i \in DOMAIN rows \cup {prod.id} |->
                           IF i = prod.id
                           THEN [status |-> "new", count |-> 1,
                                 valid |-> now + prod.delay, created |-> now,
                                 updated |-> now]
                           ELSE rows[i]]
            /\ hist' = [hist EXCEPT ![prod.id].queued = TRUE,
                                    ![prod.id].avail = TRUE,
                                    ![prod.id].notBefore = now + prod.delay,
                                    ![prod.id].delayed = (prod.delay > 0)]
            /\ prod' = [prod EXCEPT !.pc = "notify"]
    /\ kw' = Disturbed
    /\ UNCHANGED <<engine, options, now, tableExists, listening, notified, files,
                   pc, cur, loc, res, ncalls, apart>>

\* Postgres._create_table, then _send is called again.
Postgres_create_table ==
    /\ engine = "postgres"
    /\ prod.pc = "create_table"
    /\ tableExists' = TRUE
    /\ prod' = [prod EXCEPT !.pc = "insert"]
    /\ UNCHANGED <<engine, options, now, rows, listening, notified, files,
                   pc, kw, cur, loc, res, hist, ncalls, apart>>

\* Postgres._send: NOTIFY reaches every listening connection; send returns.
Postgres_send_notify ==
    /\ engine = "postgres"
    /\ prod.pc = "notify"
    /\ notified' = [c \in Consumers |-> notified[c] \/ listening[c]]
    /\ hist' = [hist EXCEPT ![prod.id].sent = TRUE]
    /\ prod' = [prod EXCEPT !.pc = "idle", !.id = 0, !.delay = 0]
    /\ UNCHANGED <<engine, options, now, tableExists, rows, listening, files,
                   pc, kw, cur, loc, res, ncalls, apart>>

\* Postgres._get_raw: one UPDATE ... WHERE _id = (SELECT ... FOR UPDATE SKIP
\* LOCKED LIMIT 1) RETURNING, in its own transaction: one atomic step.
\* A hit makes Interface.recv return the fields (recv_to_fields takes _count
\* from the row); on a miss _recv goes on at `miss`.
Postgres_get_raw(c, miss) ==
    LET i == Postgres_first(now)
    IN  /\ notified' = Upd(notified, c, FALSE)
        /\ IF i # 0
           THEN /\ rows' = [rows EXCEPT ![i].status = "processing"]
                /\ IF i \in undecodable
                   THEN /\ RecvUndecodable(c)
                        /\ hist' = [hist EXCEPT ![i].avail = FALSE]
                   ELSE RecvGot(c, [id |-> i, count |-> rows[i].count,
                                    body |-> BodySize, file |-> NoFile])
           ELSE /\ IF miss = "exit"
                   THEN RecvOver(c, "none")
                   ELSE /\ pc' = Upd(pc, c, miss)
                        /\ UNCHANGED <<loc, res>>
                /\ UNCHANGED <<rows, cur, hist>>
        /\ UNCHANGED <<engine, options, now, tableExists, listening, files, prod,
                       kw, ncalls, apart>>

\* Postgres._recv: the first claim attempt.
Postgres_recv_first(c) ==
    /\ engine = "postgres"
    /\ pc[c] = "get_raw1"
    /\ Postgres_get_raw(c, "listen")

\* Postgres._recv: LISTEN on the queue's channel, then select() starts.
\* Executing a statement reads what is pending on the socket.
Postgres_recv_listen(c) ==
    /\ engine = "postgres"
    /\ pc[c] = "listen"
    /\ listening' = Upd(listening, c, TRUE)
    /\ notified' = Upd(notified, c, FALSE)
    /\ loc' = Upd(loc, c, [loc[c] EXCEPT !.deadline = now + loc[c].timeout])
    /\ pc' = Upd(pc, c, "select")
    /\ UNCHANGED <<engine, options, now, tableExists, rows, files, prod, kw, cur,
                   res, hist, ncalls, apart>>

\* Postgres._recv: select() returns, readable or timed out.
Postgres_recv_select(c) ==
    /\ engine = "postgres"
    /\ pc[c] = "select"
    /\ \/ /\ notified[c]
          /\ pc' = Upd(pc, c, "get_raw2")
          /\ loc' = Upd(loc, c, NoLoc)
          /\ UNCHANGED res
       \/ /\ ~notified[c]
          /\ now >= loc[c].deadline
          /\ RecvOver(c, "none")
    /\ UNCHANGED <<engine, options, now, pgVars, files, prod, kw, cur,
                   hist, ncalls, apart>>

\* Postgres._recv: the one retry after a notification.
Postgres_recv_retry(c) ==
    /\ engine = "postgres"
    /\ pc[c] = "get_raw2"
    /\ Postgres_get_raw(c, "exit")

\* Postgres._ack: DELETE FROM queue WHERE _id = fields["_id"].
Postgres_ack(c) ==
    /\ engine = "postgres"
    /\ pc[c] = "ack"
    /\ rows' = [i \in DOMAIN rows \ {cur[c].id} |-> rows[i]]
    /\ notified' = Upd(notified, c, FALSE)
    /\ hist' = [hist EXCEPT ![cur[c].id].acked = TRUE, ![cur[c].id].avail = FALSE]
    /\ SettleOver(c, "ack", 0, FALSE)
    /\ UNCHANGED <<engine, options, now, tableExists, listening, files, prod,
                   kw, cur, ncalls, apart>>

\* The UPDATE of _release without `count = count + 1`.
MutReleasedSameCount(row, d) ==
    [row EXCEPT !.status = "released", !.updated = now,
                !.valid = IF d # 0 THEN now + d ELSE row.valid]

\* The row Postgres._release writes: the UPDATE with valid when delay_seconds
\* is not 0, the one without it otherwise.
Postgres_released_row(row, d) ==
    IF d # 0
    THEN [row EXCEPT !.status = "released", !.count = row.count + 1,
                     !.valid = now + d, !.updated = now]
    ELSE [row EXCEPT !.status = "released", !.count = row.count + 1,
                     !.updated = now]

\* Interface.release computes the delay; Postgres._release: UPDATE ... WHERE
\* _id = fields["_id"].
Postgres_release(c) ==
    LET d == ReleaseDelaySeconds(options, loc[c].delay, cur[c].count)
        i == cur[c].id
    IN  /\ engine = "postgres"
        /\ pc[c] = "release"
        /\ notified' = Upd(notified, c, FALSE)
        /\ IF i \in DOMAIN rows
           THEN /\ rows' = [rows EXCEPT ![i] = Postgres_released_row(rows[i], d)]
                /\ hist' = [hist EXCEPT ![i].avail = TRUE, ![i].notBefore = now + d,
                                        ![i].releases = @ + 1]
           ELSE UNCHANGED <<rows, hist>>
        /\ SettleOver(c, "release", d, FALSE)
        /\ kw' = Disturbed
        /\ UNCHANGED <<engine, options, now, tableExists, listening, files, prod,
                       cur, ncalls, apart>>

\* ================================================================ Dropfile
\* A file name is {timestamp}-{_id}-{count}.txt; names sort as their text.
NameLess(a, b) ==
    \/ a.ts < b.ts
    \/ a.ts = b.ts /\ a.id < b.id
    \/ a.ts = b.ts /\ a.id = b.id /\ a.count < b.count

RECURSIVE SortedNames(_)
SortedNames(S) ==
    IF S = {} THEN <<>>
    ELSE LET f == CHOOSE x \in S : \A y \in S \ {x} : NameLess(x, y)
         IN  <<f>> \o SortedNames(S \ {f})

\* open(path, "wb"): creates the file, or empties the file of that name.
Dropfile_created(f) ==
    [n \in DOMAIN files \cup {f} |->
        IF n # f THEN files[n]
        ELSE IF f \in DOMAIN files /\ files[f].linked
             THEN [files[f] EXCEPT !.size = 0]
             ELSE [linked |-> TRUE, size |-> 0, lock |-> FALSE]]

\* fp.truncate(): the file is cut at the position of fp.
Truncate(inode, pos) == [inode EXCEPT !.size = Min(inode.size, pos)]

\* Dropfile._send, first half of write_bytes: the file is created, empty.
Dropfile_send_create ==
    LET f == [ts |-> now + prod.delay, id |-> prod.id, count |-> 1]
    IN  /\ engine = "dropfile"
        /\ prod.pc = "create"
        /\ files' = Dropfile_created(f)
        /\ prod' = [prod EXCEPT !.pc = "write", !.file = f]
        /\ hist' = [hist EXCEPT ![prod.id].queued = TRUE,
                                ![prod.id].avail = TRUE,
                                ![prod.id].notBefore = now + prod.delay,
                                ![prod.id].delayed = (prod.delay > 0)]
        /\ kw' = Disturbed
        /\ UNCHANGED <<engine, options, now, pgVars, pc, cur, loc, res,
                       ncalls, apart>>

\* Dropfile._send, second half of write_bytes: the body goes into the open
\* file, whether the name still exists or not; send returns.
Dropfile_send_write ==
    /\ engine = "dropfile"
    /\ prod.pc = "write"
    /\ files' = [files EXCEPT ![prod.file].size = BodySize]
    /\ hist' = [hist EXCEPT ![prod.id].sent = TRUE]
    /\ prod' = [prod EXCEPT !.pc = "idle", !.id = 0, !.delay = 0, !.file = NoFile]
    /\ UNCHANGED <<engine, options, now, pgVars, pc, kw, cur, loc, res,
                   ncalls, apart>>

\* Dropfile._recv: a pass over the queue found nothing; `while count <=
\* timeout` allows another pass after a sleep, or _recv returns nothing.
\* (The model makes timeout + 1 passes where the code makes 10 a second.)
Dropfile_pass_over(c) ==
    IF loc[c].timeout > 0
    THEN /\ pc' = Upd(pc, c, "sleep")
         /\ loc' = Upd(loc, c, [NoLoc EXCEPT !.timeout = loc[c].timeout - 1])
         /\ UNCHANGED res
    ELSE RecvOver(c, "none")

\* Dropfile._recv: the for loop goes to the next file of the listing.
Dropfile_next_file(c) ==
    IF Len(loc[c].listing) > 1
    THEN /\ pc' = Upd(pc, c, "open")
         /\ loc' = Upd(loc, c, [loc[c] EXCEPT !.listing = Tail(loc[c].listing),
                                              !.fp = NoFile])
         /\ UNCHANGED res
    ELSE Dropfile_pass_over(c)

\* Dropfile._recv: now = time_ns(); queue.files().sort(); the files with
\* now > then are the ones the loop body looks at.
Dropfile_recv_list(c) ==
    LET due == {f \in DOMAIN files : files[f].linked /\ now > f.ts}
    IN  /\ engine = "dropfile"
        /\ pc[c] = "list"
        /\ IF due = {}
           THEN Dropfile_pass_over(c)
           ELSE /\ pc' = Upd(pc, c, "open")
                /\ loc' = Upd(loc, c, [loc[c] EXCEPT !.listing = SortedNames(due)])
                /\ UNCHANGED res
        /\ UNCHANGED <<engine, options, now, pgVars, files, prod, kw, cur, hist,
                       ncalls, apart>>

\* Dropfile._recv: time.sleep(0.1), then the next pass.
Dropfile_recv_sleep(c) ==
    /\ engine = "dropfile"
    /\ pc[c] = "sleep"
    /\ pc' = Upd(pc, c, "list")
    /\ UNCHANGED <<engine, options, now, pgVars, files, prod, kw, cur, loc, res,
                   hist, ncalls, apart>>

\* Dropfile._recv: message.open("rb+"), outside the try block: a name that
\* is gone by now raises FileNotFoundError out of recv.
Dropfile_recv_open(c) ==
    LET f == Head(loc[c].listing)
    IN  /\ engine = "dropfile"
        /\ pc[c] = "open"
        /\ IF files[f].linked
           THEN /\ pc' = Upd(pc, c, "flock")
                /\ loc' = Upd(loc, c, [loc[c] EXCEPT !.fp = f])
                /\ UNCHANGED res
           ELSE RecvOver(c, "raised")
        /\ UNCHANGED <<engine, options, now, pgVars, files, prod, kw, cur, hist,
                       ncalls, apart>>

\* _recv going on to read whether or not it got the lock.
MutFlockIgnored(c) ==
    LET f == loc[c].fp
    IN  /\ engine = "dropfile"
        /\ pc[c] = "flock"
        /\ files' = [files EXCEPT ![f].lock = TRUE]
        /\ pc' = Upd(pc, c, "read")
        /\ UNCHANGED <<loc, res>>
        /\ UNCHANGED <<engine, options, now, pgVars, prod, kw, cur, hist,
                       ncalls, apart>>

\* Dropfile._recv: flock(fp, LOCK_EX | LOCK_NB); a held lock raises OSError,
\* which the loop swallows.
Dropfile_recv_flock(c) ==
    LET f == loc[c].fp
    IN  /\ engine = "dropfile"
        /\ pc[c] = "flock"
        /\ IF files[f].lock
           THEN /\ Dropfile_next_file(c)
                /\ UNCHANGED files
           ELSE /\ files' = [files EXCEPT ![f].lock = TRUE]
                /\ pc' = Upd(pc, c, "read")
                /\ UNCHANGED <<loc, res>>
        /\ UNCHANGED <<engine, options, now, pgVars, prod, kw, cur, hist,
                       ncalls, apart>>

\* Dropfile._recv: body = fp.read(); a body makes recv return the fields
\* (recv_to_fields takes _count from the name), no body goes to _cleanup.
\* A body that _recv_to_fields cannot decode makes Interface.recv raise: the
\* message object goes away with the frames of the call, and closing its fp
\* gives up the lock on the untouched file.
Dropfile_recv_read(c) ==
    LET f == loc[c].fp
    IN  /\ engine = "dropfile"
        /\ pc[c] = "read"
        /\ IF files[f].size > 0 /\ f.id \in undecodable
           THEN /\ RecvUndecodable(c)
                /\ files' = [files EXCEPT ![f].lock = FALSE]
                /\ kw' = Disturbed
                /\ UNCHANGED hist
           ELSE IF files[f].size > 0
           THEN /\ RecvGot(c, [id |-> f.id, count |-> f.count,
                               body |-> files[f].size, file |-> f])
                /\ UNCHANGED <<files, kw>>
           ELSE /\ pc' = Upd(pc, c, "skip_unlock")
                /\ UNCHANGED <<files, kw, loc, res, cur, hist>>
        /\ UNCHANGED <<engine, options, now, pgVars, prod, ncalls, apart>>

\* Dropfile._cleanup(fp, message, truncate=False): flock(LOCK_UN), close.
Dropfile_recv_skip_unlock(c) ==
    /\ engine = "dropfile"
    /\ pc[c] = "skip_unlock"
    /\ files' = [files EXCEPT ![loc[c].fp].lock = FALSE]
    /\ pc' = Upd(pc, c, "skip_delete")
    /\ UNCHANGED <<engine, options, now, pgVars, prod, kw, cur, loc, res, hist,
                   ncalls, apart>>

\* Dropfile._cleanup(fp, message, truncate=False): message.delete().
Dropfile_recv_skip_delete(c) ==
    /\ engine = "dropfile"
    /\ pc[c] = "skip_delete"
    /\ files' = [files EXCEPT ![loc[c].fp].linked = FALSE]
    /\ Dropfile_next_file(c)
    /\ UNCHANGED <<engine, options, now, pgVars, prod, kw, cur, hist,
                   ncalls, apart>>

\* Dropfile._cleanup with truncate: fp.truncate() (fp stands behind the body
\* it has read), flock(LOCK_UN), fp.close().  A closed fp raises ValueError.
Dropfile_cleanup(c) ==
    LET f == cur[c].file
        kind == IF pc[c] = "ack" THEN "ack" ELSE "release"
    IN  /\ engine = "dropfile"
        /\ pc[c] \in {"ack", "rel_cleanup"}
        /\ IF loc[c].explicit # None
           THEN /\ SettleOver(c, kind, loc[c].delay, TRUE)
                /\ UNCHANGED files
           ELSE /\ files' = [files EXCEPT
                               ![f] = [Truncate(@, cur[c].body) EXCEPT !.lock = FALSE]]
                /\ pc' = Upd(pc, c, IF kind = "ack" THEN "ack_delete" ELSE "rel_delete")
                /\ UNCHANGED <<loc, res>>
        /\ UNCHANGED <<engine, options, now, pgVars, prod, kw, cur, hist,
                       ncalls, apart>>

\* Dropfile._cleanup: message.delete(); _ack or _release returns.
Dropfile_cleanup_delete(c) ==
    LET f == cur[c].file
        kind == IF pc[c] = "ack_delete" THEN "ack" ELSE "release"
    IN  /\ engine = "dropfile"
        /\ pc[c] \in {"ack_delete", "rel_delete"}
        /\ files' = [files EXCEPT ![f].linked = FALSE]
        /\ hist' = IF kind = "ack"
                   THEN [hist EXCEPT ![cur[c].id].acked = TRUE]
                   ELSE hist
        /\ SettleOver(c, kind, loc[c].delay, FALSE)
        /\ UNCHANGED <<engine, options, now, pgVars, prod, kw, cur,
                       ncalls, apart>>

\* _cleanup that deletes although told delete=False.
MutCleanupDeletes(fs, f) == [fs EXCEPT ![f].lock = FALSE, ![f].linked = FALSE]

\* Dropfile._cleanup(fp, message, truncate=False, delete=False): nothing but
\* flock(LOCK_UN) and fp.close().
Dropfile_cleanup_kept(fs, f) == [fs EXCEPT ![f].lock = FALSE]

\* Interface.release computes the delay; Dropfile._release: with a delay the
\* first half of dest.write_bytes, without one _cleanup(truncate=False,
\* delete=False), which is flock(LOCK_UN) and close.
Dropfile_release(c) ==
    LET d == ReleaseDelaySeconds(options, loc[c].delay, cur[c].count)
        dest == [ts |-> now + d, id |-> cur[c].id, count |-> cur[c].count + 1]
    IN  /\ engine = "dropfile"
        /\ pc[c] = "release"
        /\ IF d # 0
           THEN /\ files' = Dropfile_created(dest)
                /\ pc' = Upd(pc, c, "rel_write")
                /\ loc' = Upd(loc, c, [loc[c] EXCEPT !.delay = d, !.fp = dest])
                /\ hist' = [hist EXCEPT ![cur[c].id].avail = TRUE,
                                        ![cur[c].id].notBefore = now + d,
                                        ![cur[c].id].releases = @ + 1]
                /\ UNCHANGED res
           ELSE IF loc[c].explicit # None
           THEN /\ SettleOver(c, "release", 0, TRUE)
                /\ UNCHANGED <<files, hist>>
           ELSE /\ files' = Dropfile_cleanup_kept(files, cur[c].file)
                /\ hist' = [hist EXCEPT ![cur[c].id].avail = TRUE,
                                        ![cur[c].id].notBefore = now,
                                        ![cur[c].id].releases = @ + 1]
                /\ SettleOver(c, "release", 0, FALSE)
        /\ kw' = Disturbed
        /\ UNCHANGED <<engine, options, now, pgVars, prod, cur,
                       ncalls, apart>>

\* Dropfile._release: second half of dest.write_bytes.
Dropfile_release_write(c) ==
    /\ engine = "dropfile"
    /\ pc[c] = "rel_write"
    /\ files' = [files EXCEPT ![loc[c].fp].size = cur[c].body]
    /\ pc' = Upd(pc, c, "rel_cleanup")
    /\ UNCHANGED <<engine, options, now, pgVars, prod, kw, cur, loc, res, hist,
                   ncalls, apart>>

\* =========================================================== Message layer
\* Message.recv_for: `fields = await i.recv(name, timeout=timeout)`.
\* Interface.recv goes into the engine's _recv.
Message_recv_for(c, timeout, ack_on_recv) ==
    /\ pc[c] \in {"idle", "exit"}
    /\ ncalls < MaxCalls
    /\ now + timeout <= MaxTime
    /\ ncalls' = ncalls + 1
    /\ kw' = Upd(kw, c, [ack_on_recv |-> ack_on_recv,
                         quiet |-> \A i \in Ids :
                                     hist[i].avail => now < hist[i].notBefore,
                         due |-> {i \in Ids : DueDelayed(i)}])
    /\ cur' = Upd(cur, c, NoFields)
    /\ res' = Upd(res, c, NoRes)
    /\ loc' = Upd(loc, c, [NoLoc EXCEPT !.timeout = timeout])
    /\ pc' = Upd(pc, c, IF engine = "postgres" THEN "get_raw1" ELSE "list")
    /\ UNCHANGED <<engine, options, now, pgVars, files, prod, hist, apart>>

\* How the block under `async with recv_for(...)` can end: it returns, it
\* returns False under Message.process, it raises ReleaseMessage, AckMessage
\* or another Exception, or it is interrupted (KeyboardInterrupt,
\* CancelledError: BaseException, not Exception).
Outcomes == {"return", "false", "release", "ack", "error", "interrupt"}

\* `except Exception` with the two calls swapped.
MutErrorCallInverted(ack_on_recv) == IF ack_on_recv THEN "release" ELSE "ack"

\* `except Exception`: ack under ack_on_recv, release otherwise.
ErrorCall(ack_on_recv) == IF ack_on_recv THEN "ack" ELSE "release"

\* recv_for without its `except ReleaseMessage` clause: the release request
\* falls through to `except Exception`, and a False of Message.process's
\* handler is followed by no call.
MutNoReleaseClause(o, ack_on_recv) ==
    CASE o \in {"return", "ack"} -> "ack"
      [] o \in {"release", "error"} -> ErrorCall(ack_on_recv)
      [] OTHER -> None

\* The interface call each clause of recv_for's try statement makes; an
\* interrupt matches no clause.
TerminalCall(o, ack_on_recv) ==
    CASE o \in {"return", "ack"} -> "ack"
      [] o \in {"false", "release"} -> "release"
      [] o = "error" -> ErrorCall(ack_on_recv)
      [] OTHER -> None

\* delay_seconds of the release call: e.delay_seconds for ReleaseMessage (0
\* for the ReleaseMessage() of Message.process), absent otherwise.
RequestedDelay(o, d) == IF o = "release" THEN d ELSE 0

\* The handler is over with outcome o (d: the delay of its ReleaseMessage).
\* No clause catches an interrupt: no interface call is made, the exception
\* leaves recv_for, and the message object goes away with its frame; with it
\* goes the open fp of a Dropfile message, and closing it gives up the lock.
Message_handle(c, o, d) ==
    LET call == TerminalCall(o, kw[c].ack_on_recv)
    IN  /\ pc[c] = "handle"
        /\ o # "release" => d = 0
        /\ loc[c].explicit # None => o = "return"
        /\ IF call = None
           THEN /\ pc' = Upd(pc, c, "exit")
                /\ loc' = Upd(loc, c, NoLoc)
                /\ res' = Upd(res, c, [NoRes EXCEPT !.outcome = o,
                                                    !.result = "raised"])
                /\ IF engine = "dropfile" /\ loc[c].explicit = None
                   THEN /\ files' = [files EXCEPT ![cur[c].file].lock = FALSE]
                        /\ hist' = [hist EXCEPT ![cur[c].id].avail = TRUE]
                        /\ kw' = Disturbed
                   ELSE UNCHANGED <<files, hist, kw>>
           ELSE /\ pc' = Upd(pc, c, call)
                /\ loc' = Upd(loc, c, [loc[c] EXCEPT
                              !.after = "exit",
                              !.delay = RequestedDelay(o, d),
                              !.raise = (o = "error")])
                /\ res' = Upd(res, c, [NoRes EXCEPT !.outcome = o])
                /\ UNCHANGED <<files, hist, kw>>
        /\ UNCHANGED <<engine, options, now, pgVars, prod, cur,
                       ncalls, apart>>

\* Message.ack called by the handler itself.
Message_ack(c) ==
    /\ pc[c] = "handle"
    /\ loc[c].explicit = None
    /\ pc' = Upd(pc, c, "ack")
    /\ loc' = Upd(loc, c, [NoLoc EXCEPT !.after = "handle"])
    /\ UNCHANGED <<engine, options, now, pgVars, files, prod, kw, cur, res, hist,
                   ncalls, apart>>

\* Message.release(delay_seconds=d) called by the handler itself.
Message_release(c, d) ==
    /\ pc[c] = "handle"
    /\ loc[c].explicit = None
    /\ pc' = Upd(pc, c, "release")
    /\ loc' = Upd(loc, c, [NoLoc EXCEPT !.after = "handle", !.delay = d])
    /\ UNCHANGED <<engine, options, now, pgVars, files, prod, kw, cur, res, hist,
                   ncalls, apart>>

\* ------------------------------------------- the release delay on its own
NoCalc == [opts |-> ConnectionOptions([max_timeout |-> Unset,
                                       backoff_multiplier |-> Unset,
                                       backoff_amplifier |-> Unset]),
           delay |-> 0, count |-> 0, out |-> Unset]

\* The options of the delay computation: the defaults, and a DSN that sets
\* all three.
CalcOptionSets ==
    { ConnectionOptions([max_timeout |-> Unset, backoff_multiplier |-> Unset,
                         backoff_amplifier |-> Unset]),
      ConnectionOptions([max_timeout |-> 100, backoff_multiplier |-> 2,
                         backoff_amplifier |-> 3]) }

\* Interface.release up to the call of _release: the delay it hands over.
Interface_release_delay ==
    /\ calc.out = Unset
    /\ calc' = [calc EXCEPT !.out = ReleaseDelaySeconds(calc.opts, calc.delay,
                                                        calc.count)]
    /\ UNCHANGED <<engine, options, now, pgVars, files, prod, pc, kw, cur, loc,
                   res, hist, ncalls, adm, iface, codec,
                   undecodable, app, exc, proc>>

\* ===================================== count, unsafe_clear, unsafe_delete
\* Postgres._count: SELECT count(*) FROM queue; a missing table raises
\* UndefinedTable (Unset stands for the raise).
Postgres_count == IF tableExists THEN Cardinality(DOMAIN rows) ELSE Unset

\* Dropfile._count: queue.files().count(), the files of the directory,
\* which queue() creates when it is missing.
Dropfile_count == Cardinality({f \in DOMAIN files : files[f].linked})

\* What Interface.count returns now (Unset: it raises).
Count == IF engine = "postgres" THEN Postgres_count ELSE Dropfile_count

\* No send, recv, ack or release is in progress.
Quiescent ==
    /\ prod.pc = "idle"
    /\ \A c \in Consumers : pc[c] \in {"idle", "exit"}

\* The end of a call of the administering process.
AdmOver(call, n, raised) ==
    adm' = [last |-> call, count |-> n, raised |-> raised, sentAt |-> prod.sent]

\* Interface.count.
Interface_count ==
    /\ Quiescent
    /\ AdmOver("count", Count, Count = Unset)
    /\ UNCHANGED <<engine, options, now, pgVars, files, prod, pc, kw, cur, loc,
                   res, hist, ncalls, calc, iface, codec,
                   undecodable, app, exc, proc>>

\* Interface.unsafe_clear.  Postgres._clear executes DELETE FROM TABLE "q"
\* CASCADE, which the server rejects with a syntax error: nothing is
\* removed.  Dropfile._clear empties the queue's directory.
Interface_unsafe_clear ==
    /\ Quiescent
    /\ IF engine = "postgres"
       THEN /\ AdmOver("unsafe_clear", 0, TRUE)
            /\ UNCHANGED <<files, hist>>
       ELSE /\ AdmOver("unsafe_clear", 0, FALSE)
            /\ files' = [f \in DOMAIN files |-> [files[f] EXCEPT !.linked = FALSE]]
            /\ hist' = [i \in Ids |-> [hist[i] EXCEPT !.avail = FALSE]]
    /\ UNCHANGED <<engine, options, now, pgVars, prod, pc, kw, cur, loc,
                   res, ncalls, calc, iface, codec,
                   undecodable, app, exc, proc>>

\* Interface.unsafe_delete.  Postgres._delete: DROP TABLE IF EXISTS queue
\* CASCADE.  Dropfile._delete removes the queue's directory and its files.
Interface_unsafe_delete ==
    /\ Quiescent
    /\ AdmOver("unsafe_delete", 0, FALSE)
    /\ IF engine = "postgres"
       THEN /\ tableExists' = FALSE
            /\ rows' = EmptyFn
            /\ UNCHANGED files
       ELSE /\ files' = [f \in DOMAIN files |-> [files[f] EXCEPT !.linked = FALSE]]
            /\ UNCHANGED <<tableExists, rows>>
    /\ hist' = [i \in Ids |-> [hist[i] EXCEPT !.avail = FALSE]]
    /\ UNCHANGED <<engine, options, now, listening, notified, prod, pc, kw, cur,
                   loc, res, ncalls, calc, iface, codec,
                   undecodable, app, exc, proc>>

\* ====================================================== Interface lifecycle
\* One more call on the Interface object: what the caller saw (log), what
\* the backend was asked to do (backend).
IfaceOver(connected, call, asked) ==
    iface' = [connected |-> connected,
              log |-> Append(iface.log, call),
              backend |-> iface.backend \o asked]

\* Interface.connect without its first test: _connect runs every time.
MutConnectAgain(ok) ==
    /\ Len(iface.log) < MaxLog
    /\ IF ok THEN IfaceOver(TRUE, "connect", <<"_connect">>)
             ELSE IfaceOver(FALSE, "connect_failed", <<"_connect_raised">>)
    /\ UNCHANGED <<engine, options, now, pgVars, files, prod, pc, kw, cur, loc,
                   res, hist, ncalls, calc, adm, codec,
                   undecodable, app, exc, proc>>

\* Interface.connect: a connected interface returns at once; otherwise
\* connected = False, _connect, and connected = True when it did not raise
\* (ok); its exception is raised on.
Interface_connect(ok) ==
    /\ Len(iface.log) < MaxLog
    /\ IF iface.connected THEN IfaceOver(TRUE, "connect", <<>>)
       ELSE IF ok THEN IfaceOver(TRUE, "connect", <<"_connect">>)
       ELSE IfaceOver(FALSE, "connect_failed", <<"_connect_raised">>)
    /\ UNCHANGED <<engine, options, now, pgVars, files, prod, pc, kw, cur, loc,
                   res, hist, ncalls, calc, adm, codec,
                   undecodable, app, exc, proc>>

\* Interface.close: an unconnected interface returns at once; otherwise
\* _close, connected = False.
Interface_close ==
    /\ Len(iface.log) < MaxLog
    /\ IF iface.connected THEN IfaceOver(FALSE, "close", <<"_close">>)
       ELSE IfaceOver(FALSE, "close", <<>>)
    /\ UNCHANGED <<engine, options, now, pgVars, files, prod, pc, kw, cur, loc,
                   res, hist, ncalls, calc, adm, codec,
                   undecodable, app, exc, proc>>

\* Interface.connection, entered by every public operation (send, count,
\* recv, ack, release, unsafe_clear, unsafe_delete): a caller that hands in
\* a connection (given) gets it back; otherwise an unconnected interface
\* connects, and the operation is not run when that raises.
Interface_connection(given, ok) ==
    /\ Len(iface.log) < MaxLog
    /\ IF given THEN IfaceOver(iface.connected, "op_given", <<>>)
       ELSE IF iface.connected THEN IfaceOver(TRUE, "op", <<>>)
       ELSE IF ok THEN IfaceOver(TRUE, "op", <<"_connect">>)
       ELSE IfaceOver(FALSE, "op_failed", <<"_connect_raised">>)
    /\ UNCHANGED <<engine, options, now, pgVars, files, prod, pc, kw, cur, loc,
                   res, hist, ncalls, calc, adm, codec,
                   undecodable, app, exc, proc>>

\* ================================================================== codec
\* The values of a fields mapping: ints, strs, None, bools, and lists and
\* tuples of those; t is the Python type, v the value written out.
Atoms ==
    { [t |-> "int", v |-> "1", items |-> <<>>],
      [t |-> "str", v |-> "x", items |-> <<>>],
      [t |-> "none", v |-> "", items |-> <<>>],
      [t |-> "bool", v |-> "true", items |-> <<>>] }

SeqsUpTo(S, n) == UNION {[1..k -> S] : k \in 0..n}

Values ==
    Atoms \cup { [t |-> c, v |-> "", items |-> q] :
                    c \in {"list", "tuple"}, q \in SeqsUpTo(Atoms, MaxItems) }

\* The keys of a fields mapping: a str key and an int key.
FieldKeys == { [t |-> "str", v |-> "a"], [t |-> "int", v |-> "1"] }

FieldMappings == UNION {[K -> Values] : K \in SUBSET FieldKeys}

\* json.dumps of a value: lists and tuples both become arrays, the other
\* types the JSON type of their kind.
JsonType(t) ==
    CASE t = "int" -> "number"
      [] t = "str" -> "string"
      [] t = "none" -> "null"
      [] t = "bool" -> "boolean"
      [] t \in {"list", "tuple"} -> "array"

RECURSIVE JsonDumpsValue(_)
JsonDumpsValue(x) ==
    [t |-> JsonType(x.t), v |-> x.v,
     items |-> [k \in 1..Len(x.items) |-> JsonDumpsValue(x.items[k])]]

\* json.dumps of a dict: every key becomes a string (1 becomes "1").
JsonDumps(m) ==
    LET name(k) == [t |-> "string", v |-> k.v]
    IN  [j \in {name(k) : k \in DOMAIN m} |->
            JsonDumpsValue(m[CHOOSE k \in DOMAIN m : name(k) = j])]

\* json.loads with an array read as a tuple.
MutJsonArrayAsTuple(t) ==
    CASE t = "number" -> "int"
      [] t = "string" -> "str"
      [] t = "null" -> "none"
      [] t = "boolean" -> "bool"
      [] t = "array" -> "tuple"

\* json.loads: the Python type each JSON type is read as.
PythonType(t) ==
    CASE t = "number" -> "int"
      [] t = "string" -> "str"
      [] t = "null" -> "none"
      [] t = "boolean" -> "bool"
      [] t = "array" -> "list"

RECURSIVE JsonLoadsValue(_)
JsonLoadsValue(j) ==
    [t |-> PythonType(j.t), v |-> j.v,
     items |-> [k \in 1..Len(j.items) |-> JsonLoadsValue(j.items[k])]]

\* json.loads of an object: a dict with str keys.
JsonLoads(o) ==
    LET key(j) == [t |-> "str", v |-> j.v]
    IN  [k \in {key(j) : j \in DOMAIN o} |->
            JsonLoadsValue(o[CHOOSE j \in DOMAIN o : key(j) = k])]

\* pickle.dumps and pickle.loads: each object is written under the opcode
\* of its type and rebuilt as that type.
Opcode(t) ==
    CASE t = "int" -> "BININT"
      [] t = "str" -> "BINUNICODE"
      [] t = "none" -> "NONE"
      [] t = "bool" -> "NEWTRUE"
      [] t = "list" -> "APPENDS"
      [] t = "tuple" -> "TUPLE"

OpcodeType(o) ==
    CASE o = "BININT" -> "int"
      [] o = "BINUNICODE" -> "str"
      [] o = "NONE" -> "none"
      [] o = "NEWTRUE" -> "bool"
      [] o = "APPENDS" -> "list"
      [] o = "TUPLE" -> "tuple"

RECURSIVE PickleDumpsValue(_)
PickleDumpsValue(x) ==
    [t |-> Opcode(x.t), v |-> x.v,
     items |-> [k \in 1..Len(x.items) |-> PickleDumpsValue(x.items[k])]]

PickleDumps(m) ==
    LET op(k) == [t |-> Opcode(k.t), v |-> k.v]
    IN  [j \in {op(k) : k \in DOMAIN m} |->
            PickleDumpsValue(m[CHOOSE k \in DOMAIN m : op(k) = j])]

RECURSIVE PickleLoadsValue(_)
PickleLoadsValue(j) ==
    [t |-> OpcodeType(j.t), v |-> j.v,
     items |-> [k \in 1..Len(j.items) |-> PickleLoadsValue(j.items[k])]]

PickleLoads(o) ==
    LET key(j) == [t |-> OpcodeType(j.t), v |-> j.v]
    IN  [k \in {key(j) : j \in DOMAIN o} |->
            PickleLoadsValue(o[CHOOSE j \in DOMAIN o : key(j) = k])]

\* Interface._fields_to_body: serialize, then Fernet(key).encrypt when a
\* key is configured and the cryptography package is there (fernet).
FieldsToBody(cfg, m) ==
    [sealed |-> cfg.key /\ cfg.fernet,
     data |-> IF cfg.serializer = "pickle" THEN PickleDumps(m) ELSE JsonDumps(m)]

\* Interface._body_to_fields: Fernet(key).decrypt under the same condition
\* (a body that is no token raises InvalidToken), then deserialize (a
\* token is not a serialized mapping: the loader raises).
BodyToFields(cfg, body) ==
    IF body.sealed # (cfg.key /\ cfg.fernet)
    THEN [raised |-> TRUE, fields |-> EmptyFn]
    ELSE [raised |-> FALSE,
          fields |-> IF cfg.serializer = "pickle" THEN PickleLoads(body.data)
                     ELSE JsonLoads(body.data)]

\* The configurations and mappings of the round trip.
CodecInputs ==
    [stage : {"fields"},
     cfg : [serializer : {"pickle", "json"}, key : BOOLEAN, fernet : BOOLEAN],
     m : FieldMappings,
     body : {[sealed |-> FALSE, data |-> EmptyFn]},
     out : {[raised |-> FALSE, fields |-> EmptyFn]}]

Interface_fields_to_body ==
    /\ codec.stage = "fields"
    /\ codec' = [codec EXCEPT !.stage = "body",
                              !.body = FieldsToBody(codec.cfg, codec.m)]
    /\ UNCHANGED <<engine, options, now, pgVars, files, prod, pc, kw, cur, loc,
                   res, hist, ncalls, calc, adm, iface,
                   undecodable, app, exc, proc>>

Interface_body_to_fields ==
    /\ codec.stage = "body"
    /\ codec' = [codec EXCEPT !.stage = "decoded",
                              !.out = BodyToFields(codec.cfg, codec.body)]
    /\ UNCHANGED <<engine, options, now, pgVars, files, prod, pc, kw, cur, loc,
                   res, hist, ncalls, calc, adm, iface,
                   undecodable, app, exc, proc>>

\* ------------------------------------------------------- Message classes
\* Message and two subclasses that keep Message.name, so that all three
\* route to the queue "morp-messages".
Classes == {"Message", "A", "B"}
Subclasses == {"A", "B"}

NoApp == [disabled |-> FALSE, queue |-> <<>>, sent |-> <<>>, got |-> <<>>,
          calls |-> 0]

\* Every variable but app.
beside == <<engine, options, now, tableExists, rows, listening, notified, files,
            prod, pc, kw, cur, loc, res, hist, ncalls, calc, adm, iface, codec,
            undecodable, exc, proc>>

\* Message.to_interface: the classpath of the instance's class goes into
\* the fields unless they hold one already.
Message_to_interface(cls, fields) ==
    IF fields.classpath = None THEN [fields EXCEPT !.classpath = cls] ELSE fields

\* hydrate without the lookup of the classpath.
MutHydrateAsked(cls, fields) == [cls |-> cls, fields |-> fields]

\* Message.hydrate: Message itself pops the classpath and instantiates the
\* class it names; a subclass instantiates itself and keeps the key.
Message_hydrate(cls, fields) ==
    IF cls = "Message"
    THEN [cls |-> fields.classpath, fields |-> [fields EXCEPT !.classpath = None]]
    ELSE [cls |-> cls, fields |-> fields]

\* send without the test of queue_off.
MutQueueOffIgnored(disabled) == FALSE

\* Message.send: queue_off = environ.DISABLED.
QueueOff(disabled) == disabled

\* os.environ["MORP_DISABLED"] is set or unset; environ reads it at each send.
Environ_set(b) ==
    /\ app.disabled # b
    /\ app' = [app EXCEPT !.disabled = b]
    /\ UNCHANGED beside

\* Message.send of an instance of cls.  carried: the classpath its fields
\* hold before the call (None for an instance the application has just
\* built, a classpath for one filled from received fields).  Enabled, the
\* fields go to Interface.send and what it returns (the fields with _id)
\* updates the instance; disabled, the call logs and returns.
Message_send(cls, carried) ==
    LET fields == Message_to_interface(cls, [classpath |-> carried, id |-> 0])
        id == app.calls + 1
    IN  /\ Len(app.sent) < MaxSends
        /\ IF QueueOff(app.disabled)
           THEN app' = [app EXCEPT !.sent = Append(@,
                            [cls |-> cls, fields |-> fields, off |-> app.disabled])]
           ELSE app' = [app EXCEPT
                          !.calls = id,
                          !.queue = Append(@, [fields |-> fields, id |-> id,
                                               by |-> cls,
                                               fresh |-> (carried = None)]),
                          !.sent = Append(@, [cls |-> cls,
                                              fields |-> [fields EXCEPT !.id = id],
                                              off |-> app.disabled])]
        /\ UNCHANGED beside

\* asked.recv(): Interface.recv hands over the oldest message's fields with
\* its _id, recv_for yields asked.hydrate(fields), the block returns and the
\* message is acked.
Message_recv(asked) ==
    /\ app.queue # <<>>
    /\ LET e == Head(app.queue)
           inst == Message_hydrate(asked, [e.fields EXCEPT !.id = e.id])
       IN  app' = [app EXCEPT
                     !.queue = Tail(@),
                     !.got = Append(@, [asked |-> asked, cls |-> inst.cls,
                                        fields |-> inst.fields, by |-> e.by,
                                        fresh |-> e.fresh,
                                        stored |-> e.fields.classpath])]
    /\ UNCHANGED beside

\* ------------------------------------------------------------------- specs
InitQueue ==
    /\ now = 0
    /\ tableExists = FALSE
    /\ rows = EmptyFn
    /\ listening = [c \in Consumers |-> FALSE]
    /\ notified = [c \in Consumers |-> FALSE]
    /\ files = EmptyFn
    /\ prod = IdleProd
    /\ pc = [c \in Consumers |-> "idle"]
    /\ kw = [c \in Consumers |-> NoKw]
    /\ cur = [c \in Consumers |-> NoFields]
    /\ loc = [c \in Consumers |-> NoLoc]
    /\ res = [c \in Consumers |-> NoRes]
    /\ hist = [i \in Ids |-> NoHist]
    /\ ncalls = 0
    /\ adm = NoAdm

Init ==
    /\ engine \in {"postgres", "dropfile"}
    /\ options \in QueueOptionSets
    /\ InitQueue
    /\ calc = NoCalc
    /\ iface = NoIface
    /\ codec = None
    /\ undecodable = {}
    /\ app = NoApp
    /\ exc = NoExc
    /\ proc = NoProc

ProducerSteps(n) ==
    \/ \E d \in 0..MaxDelay : Interface_send(d, n)
    \/ Postgres_send_insert
    \/ Postgres_create_table
    \/ Postgres_send_notify
    \/ Dropfile_send_create
    \/ Dropfile_send_write

EngineSteps(c) ==
    \/ Postgres_recv_first(c)
    \/ Postgres_recv_listen(c)
    \/ Postgres_recv_select(c)
    \/ Postgres_recv_retry(c)
    \/ Postgres_ack(c)
    \/ Postgres_release(c)
    \/ Dropfile_recv_list(c)
    \/ Dropfile_recv_sleep(c)
    \/ Dropfile_recv_open(c)
    \/ Dropfile_recv_flock(c)
    \/ Dropfile_recv_read(c)
    \/ Dropfile_recv_skip_unlock(c)
    \/ Dropfile_recv_skip_delete(c)
    \/ Dropfile_cleanup(c)
    \/ Dropfile_cleanup_delete(c)
    \/ Dropfile_release(c)
    \/ Dropfile_release_write(c)

\* The producer sends n messages; consumers Cs call recv_for with timeouts Ts
\* and ack_on_recv in As; their handlers end in one of Os.
Steps(n, Cs, Ts, As, Os) ==
    \/ Tick
    \/ ProducerSteps(n)
    \/ \E c \in Cs : EngineSteps(c)
    \/ \E c \in Cs, t \in Ts, a \in As : Message_recv_for(c, t, a)
    \/ \E c \in Cs, o \in Os, d \in 0..MaxDelay : Message_handle(c, o, d)

\* Two consumers whose handlers return or raise ReleaseMessage.
Next == Steps(MaxMsgs, Consumers, {0, 1}, {FALSE}, {"return", "release"})

Spec == Init /\ [][Next]_vars

\* One message, one consumer, every way a handler can end, with and without
\* ack_on_recv.
NextHandler == Steps(1, {"c1"}, {0, 1}, BOOLEAN, Outcomes)

SpecHandler == Init /\ [][NextHandler]_vars

\* Handlers that may also settle the message themselves before they return.
NextSettle ==
    \/ Steps(1, {"c1"}, {0, 1}, {FALSE}, {"return"})
    \/ Message_ack("c1")
    \/ \E d \in 0..MaxDelay : Message_release("c1", d)

SpecSettle == Init /\ [][NextSettle]_vars

\* One message and one consumer, and between their calls a process that
\* counts, clears and deletes the queue.
NextAdmin ==
    \/ Steps(1, {"c1"}, {0, 1}, {FALSE}, {"return", "release"})
    \/ Interface_count
    \/ Interface_unsafe_clear
    \/ Interface_unsafe_delete

SpecAdmin == Init /\ [][NextAdmin]_vars

\* The calls on one Interface object, in every order up to MaxLog calls.
NextLifecycle ==
    \/ \E ok \in BOOLEAN : Interface_connect(ok)
    \/ Interface_close
    \/ \E given, ok \in BOOLEAN : Interface_connection(given, ok)

SpecLifecycle == Init /\ [][NextLifecycle]_vars

\* Every mapping and configuration of the bounds, encoded and decoded.
InitCodec ==
    /\ engine = "postgres"
    /\ options \in QueueOptionSets
    /\ InitQueue
    /\ calc = NoCalc
    /\ iface = NoIface
    /\ codec \in CodecInputs
    /\ undecodable = {}
    /\ app = NoApp
    /\ exc = NoExc
    /\ proc = NoProc

NextCodec == Interface_fields_to_body \/ Interface_body_to_fields

SpecCodec == InitCodec /\ [][NextCodec]_vars

\* The release delay for every count and delay up to the bounds.
InitBackoff ==
    /\ engine = "postgres"
    /\ options \in QueueOptionSets
    /\ InitQueue
    /\ calc \in [opts : CalcOptionSets, delay : (0 - 1)..MaxCalcDelay,
                 count : 0..MaxCalcCount, out : {Unset}]
    /\ iface = NoIface
    /\ codec = None
    /\ undecodable = {}
    /\ app = NoApp
    /\ exc = NoExc
    /\ proc = NoProc

NextBackoff == Interface_release_delay

SpecBackoff == InitBackoff /\ [][NextBackoff]_vars

\* ============================================================== properties
\* Interface.recv of consumer c returns a message in this step.
Delivery(c) == pc[c] \in RecvPcs /\ pc'[c] = "handle"

\* Consumer c is between the return of recv and the end of recv_for.
Handling(c) == pc[c] \in {"handle"} \cup SettlePcs

\* The queue stores message i; the queue stores it and nobody holds it.
Stored(i) ==
    IF engine = "postgres" THEN i \in DOMAIN rows
    ELSE \E f \in DOMAIN files : f.id = i /\ files[f].linked /\ files[f].size > 0

Ready(i) ==
    IF engine = "postgres" THEN i \in DOMAIN rows /\ rows[i].status # "processing"
    ELSE \E f \in DOMAIN files :
            f.id = i /\ files[f].linked /\ files[f].size > 0 /\ ~files[f].lock

\* The state of message i in the Postgres queue table.
State(i) ==
    IF ~hist[i].queued THEN "NEW"
    ELSE IF i \notin DOMAIN rows THEN "CONSUMED"
    ELSE IF rows[i].status = "processing" THEN "INFLIGHT"
    ELSE "READY"

Transitions == { <<"NEW", "READY">>, <<"READY", "INFLIGHT">>,
                 <<"INFLIGHT", "CONSUMED">>, <<"INFLIGHT", "READY">> }

\* C1: a recv returns a message only if that message was sent or released
\* since a recv last returned it; no message goes to two recv calls with no
\* release between them.
DistinctDeliveries ==
    [][\A c \in Consumers : Delivery(c) => hist[cur'[c].id].avail]_vars

\* C2: in the queue table every message changes its state only along
\* NEW -> READY (send), READY -> INFLIGHT (recv), INFLIGHT -> CONSUMED (ack)
\* and INFLIGHT -> READY (release), whatever the calls and their order.
OnlyStateMachineMoves ==
    [][engine = "postgres" =>
         \A i \in Ids : State(i)' # State(i) => <<State(i), State(i)'>> \in Transitions]_vars

\* C3: once the ack of a message has returned, no recv of any consumer
\* returns that message again.
AckedNeverReturned ==
    [][\A c \in Consumers : Delivery(c) => ~hist[cur'[c].id].acked]_vars

\* C4: a message whose send has returned and that nobody has acked is stored
\* in the queue, whatever recv calls ran while the send was in progress.
SentIsStored ==
    \A i \in Ids : hist[i].sent /\ ~hist[i].acked => Stored(i)

\* C5: when the receive context of a message is over, the message is not
\* INFLIGHT any more: it was acked or it is READY again.
NeverLeftInflight ==
    \A c \in Consumers :
        pc[c] = "exit" /\ cur[c].id # 0 /\ engine = "postgres"
            => ~(cur[c].id \in DOMAIN rows /\ rows[cur[c].id].status = "processing")

AckedByContextNeverReturned ==
    [][\A c, a \in Consumers :
          /\ pc[a] = "exit" /\ res[a].outcome \in {"return", "ack"}
          /\ res[a].terminal = "ack" /\ res[a].result = "returned"
          /\ Delivery(c)
          => cur'[c].id # cur[a].id]_vars

\* C8: a released message is returned by no recv before the delay of its
\* release has elapsed.
NotReturnedBeforeDelay ==
    [][\A c \in Consumers : Delivery(c) => now >= hist[cur'[c].id].notBefore]_vars

\* C9: a handler cut short by cancellation or an interrupt has its message
\* released, or acked under ack_on_recv, like one that raised an error.
InterruptSettles ==
    \A c \in Consumers :
        pc[c] = "exit" /\ res[c].outcome = "interrupt"
            => res[c].terminal = IF kw[c].ack_on_recv THEN "ack" ELSE "release"

\* C10: a release with delay_seconds 0 of a message with _count c > 0 gets
\* the delay min(max_timeout, c * backoff_multiplier * backoff_amplifier),
\* the amplifier being c when the option is not set; the defaults of the
\* two other options are 3600 and 5.
BackoffFormula ==
    /\ NoCalc.opts.max_timeout = 3600 /\ NoCalc.opts.backoff_multiplier = 5
    /\ calc.out # Unset /\ calc.delay = 0 /\ calc.count > 0
        => LET a == IF calc.opts.backoff_amplifier = Unset THEN calc.count
                    ELSE calc.opts.backoff_amplifier
               p == calc.count * calc.opts.backoff_multiplier * a
           IN  calc.out = IF p < calc.opts.max_timeout THEN p
                          ELSE calc.opts.max_timeout

BackoffCapped ==
    /\ calc.opts = NoCalc.opts
    /\ calc.delay = 0 /\ calc.count = 27
    /\ calc.out = 3600

\* C11: every delivery of a message reports a _count one greater than the
\* number of releases the message has had: 1 at first, k + 1 after k
\* releases, so strictly more than the delivery before the release reported.
CountIsReleasesPlusOne ==
    [][\A c \in Consumers :
          Delivery(c) => cur'[c].count = hist[cur'[c].id].releases + 1]_vars

\* C12: a message sent with a delay d > 0 at time t is returned by no recv
\* before t + d, and a recv issued after t + d does not end empty-handed
\* while the message, claimed by nobody, is still in the queue.
DelayedSendHonoured ==
    /\ [][\A c \in Consumers :
            Delivery(c) /\ hist[cur'[c].id].delayed /\ hist[cur'[c].id].releases = 0
                => now >= hist[cur'[c].id].notBefore]_vars
    /\ [](\A c \in Consumers :
            pc[c] = "exit" /\ cur[c].id = 0
                => \A i \in kw[c].due : ~(hist[i].avail /\ hist[i].releases = 0))

\* C13: a recv during which the queue has no READY message (it is empty,
\* was never created, or holds only delayed and INFLIGHT messages) ends by
\* returning None; it does not raise.
QuietRecvReturnsNone ==
    \A c \in Consumers :
        pc[c] = "exit" /\ cur[c].id = 0 /\ kw[c].quiet => res[c].result = "none"

\* C14: of two messages sent without delay by the producer and never
\* released, the later one is returned by no recv while the earlier one,
\* sent and not yet delivered, is READY in the queue.
FifoPerProducer ==
    [][\A c \in Consumers :
          Delivery(c) =>
              \A e \in Ids :
                  /\ e < cur'[c].id
                  /\ hist[e].sent /\ ~hist[e].delayed /\ hist[e].releases = 0
                  /\ ~hist[cur'[c].id].delayed /\ hist[cur'[c].id].releases = 0
                  => ~(hist[e].avail /\ Ready(e))]_vars

\* C15: the first send to a queue that does not exist creates the queue and
\* stores the message once: when the send has returned and the message has
\* not been delivered yet, count is 1.
FirstSendEnqueuesOnce ==
    /\ prod.sent = 1 /\ hist[1].sent
    /\ hist[1].avail /\ hist[1].releases = 0 /\ adm.last = None
    => Count = 1

\* C16: unsafe_delete does not raise, a count that follows it (nothing sent
\* in between) returns 0 and does not raise, also on a queue that never
\* existed, and a second unsafe_delete changes nothing.
DeleteThenCountIsZero ==
    [][/\ adm'.last = "unsafe_delete" => ~adm'.raised
       /\ adm.last = "unsafe_delete" /\ adm'.last = "count" /\ adm.sentAt = prod.sent
            => ~adm'.raised /\ adm'.count = 0
       /\ adm.last = "unsafe_delete" /\ adm'.last = "unsafe_delete"
          /\ adm.sentAt = prod.sent /\ UNCHANGED <<now, prod, pc>>
            => UNCHANGED <<tableExists, rows, files>>]_vars

\* C17: unsafe_clear does not raise, whether the queue holds messages, is
\* empty or does not exist; after it, and until the next send, the queue
\* stores no message and count is 0; the queue itself is kept.
ClearEmptiesQueue ==
    /\ [][adm'.last = "unsafe_clear" /\ tableExists => tableExists']_vars
    /\ [](adm.last = "unsafe_clear"
            => /\ ~adm.raised
               /\ adm.sentAt = prod.sent /\ prod.pc = "idle"
                    => Count = 0 /\ \A i \in Ids : ~Stored(i))

\* The backend connection is open: the last _connect or _close the backend
\* completed is a _connect.
BackendOpen(b) ==
    \E k \in 1..Len(b) :
        b[k] = "_connect" /\ \A j \in (k + 1)..Len(b) : b[j] # "_close"

\* _connect is called only while the backend connection is not open, _close
\* only while it is.
BackendAlternates(b) ==
    \A k \in 1..Len(b) :
        BackendOpen(SubSeq(b, 1, k - 1)) <=> b[k] = "_close"

\* The caller's view: a connect or an operation that connected has returned
\* and no close has been called since.
ConnectNotClosed(calls, l) ==
    \E k \in 1..Len(l) :
        l[k] \in calls /\ \A j \in (k + 1)..Len(l) : l[j] # "close"

\* C18 as stated: connected is true exactly when a successful connect (by
\* connect itself or by a public operation, every one of which connects an
\* unconnected interface) has not been followed by close; connect on a
\* connected and close on an unconnected interface do not reach the backend.
LifecycleAnyOperationConnects ==
    /\ iface.connected <=> ConnectNotClosed({"connect", "op", "op_given"}, iface.log)
    /\ iface.connected <=> BackendOpen(iface.backend)
    /\ BackendAlternates(iface.backend)

\* C18, amended: the same, for the public operations that are not handed a
\* connection by their caller; one that is handed a connection does not
\* connect the interface.
LifecycleFlag ==
    /\ iface.connected <=> ConnectNotClosed({"connect", "op"}, iface.log)
    /\ iface.connected <=> BackendOpen(iface.backend)
    /\ BackendAlternates(iface.backend)

\* An operation connected the interface, it was closed, and a connect that
\* failed left it unconnected.
LifecycleRound ==
    /\ iface.log = <<"op", "connect", "close", "connect_failed">>
    /\ iface.backend = <<"_connect", "_close", "_connect_raised">>
    /\ ~iface.connected

\* The messages whose send has returned and whose ack has not.
SentNotAcked == {i \in Ids : hist[i].sent /\ ~hist[i].acked}

\* C19: whenever no send, recv, ack or release is in progress, count
\* returns the number of messages sent and not yet acked.
CountIsSentNotAcked ==
    Quiescent => Count = Cardinality(SentNotAcked)

\* What json.dumps writes without changing it: str keys, no tuples.
JsonNative(m) ==
    /\ \A k \in DOMAIN m : k.t = "str"
    /\ \A k \in DOMAIN m : m[k].t # "tuple"

InitDecode ==
    /\ engine \in {"postgres", "dropfile"}
    /\ options \in QueueOptionSets
    /\ InitQueue
    /\ calc = NoCalc
    /\ iface = NoIface
    /\ codec = None
    /\ undecodable \in SUBSET {1}
    /\ app = NoApp
    /\ exc = NoExc
    /\ proc = NoProc

NextDecode == Steps(1, {"c1"}, {0, 1}, {FALSE}, {"return", "release"})

SpecDecode == InitDecode /\ [][NextDecode]_vars

\* C21: when the body of a claimed message cannot be decrypted or
\* deserialized, the message is not delivered to the handler, and the engine
\* has released it with a backoff delay: it is READY again (not INFLIGHT, not
\* dropped) with one more release on its record.
UndecodableIsReleased ==
    /\ \A c \in Consumers : pc[c] = "handle" => cur[c].id \notin undecodable
    /\ \A c \in Consumers :
          pc[c] = "exit" /\ res[c].result = "decode_error"
              => \E i \in undecodable :
                    Stored(i) /\ Ready(i) /\ hist[i].releases > 0

\* ---------------------------------------------------- the Message classes
\* An application that sends instances of A and B, receives on Message, A
\* and B, and sets and unsets MORP_DISABLED in between.
InitMessage ==
    /\ engine = "postgres"
    /\ options \in QueueOptionSets
    /\ InitQueue
    /\ calc = NoCalc
    /\ iface = NoIface
    /\ codec = None
    /\ undecodable = {}
    /\ app = NoApp
    /\ exc = NoExc
    /\ proc = NoProc

NextMessage ==
    \/ \E b \in BOOLEAN : Environ_set(b)
    \/ \E cls \in Subclasses, carried \in Subclasses \cup {None} :
          Message_send(cls, carried)
    \/ \E asked \in Classes : Message_recv(asked)

SpecMessage == InitMessage /\ [][NextMessage]_vars

\* C22: receiving on Message yields an instance of the class named by the
\* classpath stored in the message, which for a message sent from a newly
\* built instance is the subclass that sent it; receiving on a subclass
\* yields an instance of that subclass.
PolymorphicDispatch ==
    \A k \in 1..Len(app.got) :
        LET g == app.got[k]
        IN  /\ g.asked = "Message"
                => /\ g.cls = g.stored
                   /\ g.fresh => g.cls = g.by
            /\ g.asked # "Message" => g.cls = g.asked

\* C22 witness: one A and one B were sent, and receiving on Message gave an
\* A for the first and a B for the second.
DispatchedBoth ==
    /\ Len(app.got) >= 2
    /\ \A k \in 1..2 : app.got[k].asked = "Message" /\ app.got[k].fresh
    /\ app.got[1].by = "A" /\ app.got[1].cls = "A"
    /\ app.got[2].by = "B" /\ app.got[2].cls = "B"

\* C23: with MORP_DISABLED set, Message.send does not call Interface.send,
\* leaves the queue's contents and count as they are, and gives the instance
\* no _id.
DisabledSendIsNoOp ==
    [][app.disabled /\ Len(app'.sent) > Len(app.sent)
          => /\ app'.calls = app.calls
             /\ app'.queue = app.queue
             /\ app'.sent[Len(app'.sent)].fields.id = 0]_vars

\* C23 witness: a send in disabled mode on a queue that holds a message.
DisabledSendOnFilledQueue ==
    /\ app.queue # <<>>
    /\ \E k \in 1..Len(app.sent) :
          app.sent[k].off /\ app.sent[k].fields.id = 0

\* C24: ack is idempotent for a received message: when the handler has
\* called Message.ack() and the context acks again on normal exit, no error
\* is raised and the queue is as after one ack (the message is gone and
\* counts 0).
AckTwiceIsQuiet ==
    \A c \in Consumers :
        /\ pc[c] = "exit" /\ res[c].outcome = "return"
        /\ cur[c].id # 0 /\ hist[cur[c].id].acked
        => /\ res[c].result = "returned"
           /\ res[c].terminal = "ack"
           /\ ~Stored(cur[c].id)
           /\ Count = 0

\* C25: Dropfile ack truncates the file to zero bytes while it holds the
\* lock and only then unlocks, closes and deletes: from the unlock on the
\* file is empty, and no other consumer locks it and reads a body from it.
AckTruncatesUnderLock ==
    engine = "dropfile" =>
        \A c \in Consumers :
            pc[c] = "ack_delete" =>
                /\ files[cur[c].file].size = 0
                /\ \A o \in Consumers \ {c} :
                      ~(pc[o] = "handle" /\ cur[o].file = cur[c].file)

\* ------------------------------------------------ one message, two consumers
NextClaim == Steps(1, Consumers, {0, 1}, {FALSE}, {"return", "release"})

SpecClaim == Init /\ [][NextClaim]_vars

\* C26: Dropfile recv returns a message only from a file on which it got the
\* exclusive lock and read a non-empty body, and the lock stays held until
\* ack or release: while a handler has a message its file is locked, its
\* body is not empty and no other consumer has a message from that file; a
\* consumer that finds the file locked or empty does not return it.
ClaimedUnderLock ==
    engine = "dropfile" =>
        /\ \A c \in Consumers :
              pc[c] = "handle" =>
                  /\ files[cur[c].file].lock
                  /\ cur[c].body > 0
                  /\ \A o \in Consumers \ {c} :
                        ~(pc[o] \in {"read", "handle"} /\ loc[o].fp = cur[c].file)
                        /\ ~(pc[o] = "handle" /\ cur[o].file = cur[c].file)
        /\ \A c \in Consumers :
              pc[c] \in {"skip_unlock", "skip_delete"} => cur[c] = NoFields

\* C26 witness: c1 has the message and holds the lock, c2 stands before
\* flock on the same file.
SecondConsumerAtLock ==
    /\ engine = "dropfile"
    /\ pc["c1"] = "handle" /\ files[cur["c1"].file].lock
    /\ pc["c2"] = "flock" /\ loc["c2"].fp = cur["c1"].file

\* Consumer c is inside Dropfile._release with a delay: the new file is
\* created, the original not yet deleted.
Releasing(c) == engine = "dropfile" /\ pc[c] \in {"rel_write", "rel_cleanup", "rel_delete"}

\* C27: when a Dropfile release with delay d > 0 completes, the directory
\* holds exactly one file for the message: the new one, with the same _id,
\* count + 1 and the original body; the original is gone; and at no point of
\* the release is the message handed to a consumer from the original file.
ReleaseMovesTheFile ==
    [][\A c \in Consumers :
          /\ Releasing(c) /\ pc'[c] \notin SettlePcs
                => LET dest == loc[c].fp
                   IN  /\ {f \in DOMAIN files' :
                              f.id = cur[c].id /\ files'[f].linked} = {dest}
                       /\ dest.id = cur[c].id
                       /\ dest.count = cur[c].count + 1
                       /\ dest.ts >= loc[c].delay
                       /\ files'[dest].size = cur[c].body
          /\ Releasing(c)
                => \A o \in Consumers \ {c} :
                      Delivery(o) => cur'[o].file # cur[c].file]_vars

\* C28: at every step of a Dropfile release with delay d > 0 (each of them
\* a point where the process may crash) the queue directory holds at least
\* one non-empty file with the message's body: the new file is written
\* before the original is truncated and deleted.
ReleaseKeepsABody ==
    \A c \in Consumers :
        Releasing(c) =>
            \E f \in DOMAIN files :
                /\ f.id = cur[c].id
                /\ files[f].linked
                /\ files[f].size = cur[c].body

\* C29: a Dropfile release whose delay is 0 only gives up the lock: no file
\* is truncated, deleted, renamed or added, so the file keeps its body, its
\* timestamp and its count, and the next claim sees the same file.
ReleaseInPlace ==
    [][\A c \in Consumers :
          /\ engine = "dropfile"
          /\ pc[c] = "release" /\ pc'[c] # "release"
          /\ ReleaseDelaySeconds(options, loc[c].delay, cur[c].count) = 0
          => /\ DOMAIN files' = DOMAIN files
             /\ \A f \in DOMAIN files :
                   /\ files'[f].linked = files[f].linked
                   /\ files'[f].size = files[f].size
                   /\ f # cur[c].file => files'[f].lock = files[f].lock
             /\ ~files'[cur[c].file].lock]_vars

\* C29 witness: after a release with delay 0 the next recv has returned the
\* message from the same file, with the count it had.
ReclaimedSameFile ==
    /\ engine = "dropfile"
    /\ pc["c1"] = "handle"
    /\ hist[cur["c1"].id].releases = 1
    /\ cur["c1"].file = [ts |-> 0, id |-> 1, count |-> 1]
    /\ files[cur["c1"].file].linked

\* C30: a Postgres row whose status is processing is never selected by a
\* recv, and nothing but an ack or a release by a consumer that holds the
\* message changes it: after its consumer has crashed the row stays
\* processing and undelivered through every later recv.
ProcessingIsLeased ==
    [][engine = "postgres" =>
          \A i \in DOMAIN rows :
              rows[i].status = "processing" =>
                  /\ \A c \in Consumers : ~(Delivery(c) /\ cur'[c].id = i)
                  /\ i \notin DOMAIN rows' \/ rows'[i] # rows[i]
                        => \E c \in Consumers :
                              pc[c] \in {"ack", "release"} /\ cur[c].id = i]_vars

\* C30 witness: the consumer crashed in its handler, another recv was made
\* and returned nothing, and the row is still processing.
LeaseOutlivesCrash ==
    /\ engine = "postgres"
    /\ 1 \in DOMAIN rows /\ rows[1].status = "processing" /\ rows[1].valid <= now
    /\ ncalls = 2
    /\ pc["c1"] = "exit" /\ res["c1"].result = "none"

\* C31: Postgres wake-up: when the first claim attempt of a recv has missed
\* and a send without delay completes before the recv's timeout, with nobody
\* else claiming the message, the recv returns it: a recv with a timeout
\* never gives up waiting while such a message sits unclaimed in the table.
WakeUpNotLost ==
    [][\A c \in Consumers :
          /\ engine = "postgres"
          /\ pc[c] = "select" /\ pc'[c] = "exit"
          /\ loc[c].timeout > 0
          => ~\E i \in DOMAIN rows :
                /\ hist[i].sent /\ ~hist[i].delayed
                /\ rows[i].status = "new"
                /\ rows[i].created < loc[c].deadline]_vars

\* The step in which consumer c's Postgres release of delay d updates row i.
ReleaseOf(c, i, d) ==
    /\ engine = "postgres"
    /\ pc[c] = "release" /\ pc'[c] # "release"
    /\ i = cur[c].id /\ i \in DOMAIN rows
    /\ d = ReleaseDelaySeconds(options, loc[c].delay, cur[c].count)

\* What every Postgres release does to the table: status released, count
\* one more, _updated now, _id and _created as they were, no other row
\* touched.
ReleaseFrame(i) ==
    /\ DOMAIN rows' = DOMAIN rows
    /\ \A j \in DOMAIN rows \ {i} : rows'[j] = rows[j]
    /\ rows'[i].status = "released"
    /\ rows'[i].count = rows[i].count + 1
    /\ rows'[i].updated = now
    /\ rows'[i].created = rows[i].created

\* C32 as stated: a Postgres release with delay d sets status = released,
\* count = count + 1, valid = now + d and _updated = now, and leaves the
\* rest of the row and every other row unchanged.
ReleaseSetsValid ==
    [][\A c \in Consumers, i \in Ids, d \in 0..MaxDelay :
          ReleaseOf(c, i, d)
              => ReleaseFrame(i) /\ rows'[i].valid = now + d]_vars

\* C32 amended: as above, but valid = now + d only for d > 0; a release
\* with d = 0 leaves valid, which is not later than now, as it is.  Either
\* way the row is claimable again exactly from now + d on.
ReleaseUpdatesRow ==
    [][\A c \in Consumers, i \in Ids, d \in 0..MaxDelay :
          ReleaseOf(c, i, d)
              => /\ ReleaseFrame(i)
                 /\ d # 0 => rows'[i].valid = now + d
                 /\ d = 0 => rows'[i].valid = rows[i].valid /\ rows[i].valid <= now
                 /\ \A t \in now..MaxTime + MaxDelay :
                       Postgres_selectable(rows'[i], t) <=> t >= now + d]_vars

\* C32 witness: a row released with a delay of one tick.
ReleasedWithDelay ==
    /\ engine = "postgres"
    /\ 1 \in DOMAIN rows
    /\ rows[1].status = "released" /\ rows[1].count = 2
    /\ rows[1].valid = rows[1].updated + 1

\* C33: for each message handed to the handler, when the handler returns or
\* raises an Exception, recv_for makes exactly one terminal call: it goes
\* from the handler into Interface.ack or Interface.release, stays in that
\* one call until it is over, and leaves recv_for from there.
ExactlyOneTerminalCall ==
    [][\A c \in Consumers :
          /\ pc[c] = "handle" /\ pc'[c] # "handle" /\ res'[c].outcome # "interrupt"
                => pc'[c] \in {"ack", "release"}
          /\ pc[c] \in {"ack", "ack_delete"}
                => pc'[c] \in {"ack", "ack_delete", "exit"}
          /\ pc[c] \in {"release", "rel_write", "rel_cleanup", "rel_delete"}
                => pc'[c] \in {"release", "rel_write", "rel_cleanup",
                               "rel_delete", "exit"}
          /\ pc[c] # "exit" /\ pc'[c] = "exit"
             /\ res'[c].outcome \in Outcomes \ {"interrupt"}
                => /\ pc[c] \in SettlePcs
                   /\ res'[c].terminal \in {"ack", "release"}
                   /\ res'[c].terminal = "ack" <=> pc[c] \in {"ack", "ack_delete"}]_vars

\* C33 witness: a handler under Message.process returned False and recv_for
\* was left after the one release.
FalseReleasedOnce ==
    /\ pc["c1"] = "exit"
    /\ res["c1"].outcome = "false"
    /\ res["c1"].terminal = "release"

\* C34: when the handler has called Message.release() on the message and
\* then leaves the recv context normally, the context does not ack and
\* remove the message: it is still stored in the queue.
ReleasedByHandlerStays ==
    [][\A c \in Consumers :
          /\ pc[c] \in SettlePcs /\ pc'[c] = "exit"
          /\ loc[c].explicit = "release" /\ res[c].outcome = "return"
          => IF engine = "postgres"
             THEN cur[c].id \in DOMAIN rows'
             ELSE \E f \in DOMAIN files' :
                     /\ f.id = cur[c].id
                     /\ files'[f].linked /\ files'[f].size > 0]_vars

\* ---------------------------------- two consumers whose handlers may settle
\* One message and two consumers whose handlers return, after they may have
\* called Message.ack or Message.release themselves.
NextStale ==
    \/ Steps(1, Consumers, {0, 1}, {FALSE}, {"return"})
    \/ \E c \in Consumers : Message_ack(c)
    \/ \E c \in Consumers, d \in 0..MaxDelay : Message_release(c, d)

SpecStale == Init /\ [][NextStale]_vars

\* C35: only the current delivery of a message can be settled: when consumer
\* c has released the message, consumer o has claimed it again and holds
\* it, an ack or release that c issues with the fields of its earlier
\* delivery neither removes the message nor makes it READY: it leaves the
\* row (the file) that o holds as it is.
StaleSettleIsIgnored ==
    [][\A c \in Consumers, o \in Consumers :
          /\ c # o
          /\ pc[c] \in SettlePcs /\ loc[c].explicit = "release"
          /\ pc[o] = "handle" /\ loc[o].explicit = None
          /\ cur[o].id = cur[c].id
          => IF engine = "postgres"
             THEN /\ cur[o].id \in DOMAIN rows
                  /\ cur[o].id \in DOMAIN rows'
                  /\ rows'[cur[o].id] = rows[cur[o].id]
             ELSE files'[cur[o].file] = files[cur[o].file]]_vars

\* C36: a Dropfile recv that finds a listed file deleted by another
\* consumer's ack or delayed release when it comes to open it does not
\* raise: it goes on to the next file, or returns a message or None.  (A
\* file deleted with its body in it was deleted by _ack or _release; the
\* clean-up of _recv itself deletes only files it has read as empty.)
VanishedFileIsSkipped ==
    [][\A c \in Consumers :
          /\ engine = "dropfile"
          /\ pc[c] = "open"
          /\ ~files[Head(loc[c].listing)].linked
          /\ files[Head(loc[c].listing)].size > 0
          /\ \/ hist[Head(loc[c].listing).id].acked
             \/ hist[Head(loc[c].listing).id].releases > 0
          => ~(pc'[c] = "exit" /\ res'[c].result = "raised")]_vars

\* ============================================== the way of an exception
\* The public operations of Interface, each of them one connection scope
\* around its backend method.
InterfaceOps == {"send", "count", "recv", "ack", "release", "unsafe_clear",
                 "unsafe_delete"}

\* The entry points under which a handler runs: process calls recv, recv
\* calls recv_for; only recv_for has except clauses.
MessageOps == {"recv_for", "recv", "process"}

\* _raise_error wrapping whatever it is given.
MutRaiseErrorAlwaysWraps(e) ==
    [cls |-> "InterfaceError", orig |-> e.orig, wraps |-> e.wraps + 1]

\* Interface._raise_error: an InterfaceError (isinstance) and an exception
\* whose class name is a name of builtins (hasattr) are raised as they are,
\* everything else is raised as InterfaceError(e) from e.
Interface_raise_error(e) ==
    IF \/ e.cls \in {"InterfaceError", "ReleaseMessage", "AckMessage"}
       \/ e.cls \in {"RuntimeError", "OSError", "KeyboardInterrupt"}
    THEN e
    ELSE [cls |-> "InterfaceError", orig |-> e.orig, wraps |-> e.wraps + 1]

\* `except Exception as e: self._raise_error(e)` of Interface.connection and
\* of Interface.connect: KeyboardInterrupt is no Exception.
ExceptException(e) ==
    IF e.cls # "KeyboardInterrupt" THEN Interface_raise_error(e) ELSE e

\* The except clauses an exception passes, innermost first.  A backend
\* method runs in the scope of its public operation; _connect runs in
\* connect, which the scope calls; under recv_for the handler runs in the
\* clauses of recv_for, and these and Interface.recv in the scope recv_for
\* opens.
Frames(op, origin) ==
    IF op \in MessageOps
    THEN IF origin = "handler" THEN <<"recv_for", "connection">>
         ELSE <<"connection", "connection">>
    ELSE IF origin = "connect" THEN <<"connect", "connection">>
         ELSE <<"connection">>

\* Every variable but exc and proc.
aside == <<engine, options, now, tableExists, rows, listening, notified, files,
           prod, pc, kw, cur, loc, res, hist, ncalls, calc, adm, iface, codec,
           undecodable, app>>

\* An exception of class cls is raised: by the handler, by the backend
\* method of the operation, or by _connect when the scope connects.
Raise(op, origin, cls) ==
    /\ exc = NoExc
    /\ proc = NoProc
    /\ \/ /\ op \in MessageOps /\ origin = "handler"
          /\ cls \in {"RuntimeError", "UserError", "ReleaseMessage",
                      "AckMessage", "KeyboardInterrupt"}
       \/ /\ op \in MessageOps \cup InterfaceOps /\ origin = "backend"
          /\ cls \in {"OSError", "psycopg.Error"}
       \/ /\ op \in InterfaceOps /\ origin = "connect"
          /\ cls \in {"OSError", "psycopg.Error"}
    /\ exc' = [op |-> op, origin |-> origin, e |-> Raised(cls),
               frames |-> Frames(op, origin)]
    /\ UNCHANGED <<aside, proc>>

\* Interface.connect: except Exception as e: raise self._raise_error(e)
Interface_connect_except ==
    /\ exc.frames # <<>> /\ Head(exc.frames) = "connect"
    /\ exc' = [exc EXCEPT !.e = ExceptException(@), !.frames = Tail(@)]
    /\ UNCHANGED <<aside, proc>>

\* Interface.connection: except Exception as e: self._raise_error(e)
Interface_connection_except ==
    /\ exc.frames # <<>> /\ Head(exc.frames) = "connection"
    /\ exc' = [exc EXCEPT !.e = ExceptException(@), !.frames = Tail(@)]
    /\ UNCHANGED <<aside, proc>>

\* Message.recv_for: except ReleaseMessage and except AckMessage settle the
\* message and end the exception; except Exception settles it and raises
\* it again; anything else passes.
Message_recv_for_except ==
    /\ exc.frames # <<>> /\ Head(exc.frames) = "recv_for"
    /\ IF exc.e.cls \in {"ReleaseMessage", "AckMessage"}
       THEN exc' = [exc EXCEPT !.e = Raised(None), !.frames = <<>>]
       ELSE exc' = [exc EXCEPT !.frames = Tail(@)]
    /\ UNCHANGED <<aside, proc>>

NextErrors ==
    \/ \E op \in MessageOps \cup InterfaceOps,
          origin \in {"handler", "backend", "connect"},
          cls \in {"RuntimeError", "UserError", "ReleaseMessage", "AckMessage",
                   "KeyboardInterrupt", "OSError", "psycopg.Error"} :
          Raise(op, origin, cls)
    \/ Interface_connect_except
    \/ Interface_connection_except
    \/ Message_recv_for_except

InitErrors ==
    /\ engine = "postgres"
    /\ options \in QueueOptionSets
    /\ InitQueue
    /\ calc = NoCalc
    /\ iface = NoIface
    /\ codec = None
    /\ undecodable = {}
    /\ app = NoApp
    /\ exc = NoExc
    /\ proc = NoProc

SpecErrors == InitErrors /\ [][NextErrors]_vars

\* C37: an exception raised by the handler, other than ReleaseMessage and
\* AckMessage, reaches the caller of process, recv or recv_for as that same
\* exception, of a user-defined class as well as of a builtin one: it is
\* not wrapped in an InterfaceError.
HandlerErrorReachesCaller ==
    /\ exc.origin = "handler" /\ exc.frames = <<>>
    /\ exc.e.orig \notin {"ReleaseMessage", "AckMessage", None}
    => exc.e = Raised(exc.e.orig)

Message_process(n) ==
    /\ proc.pc = "idle"
    /\ pc["c1"] = "idle"
    /\ proc' = [NoProc EXCEPT !.pc = "loop", !.max_count = n]
    /\ UNCHANGED <<aside, exc>>

\* Message.process: `while not max_count or count < max_count`, then
\* count += 1 and the call of recv; a false test ends the call.
Message_process_loop ==
    /\ proc.pc = "loop"
    /\ IF proc.max_count = 0 \/ proc.count < proc.max_count
       THEN proc' = [proc EXCEPT !.count = @ + 1, !.pc = "recv"]
       ELSE proc' = [proc EXCEPT !.pc = "returned"]
    /\ UNCHANGED <<aside, exc>>

\* Message.recv(block=True): `async with cls.recv_for(**kwargs) as m`, the
\* call of recv_for.
Message_recv_call(timeout) ==
    /\ proc.pc = "recv"
    /\ pc["c1"] = "idle"
    /\ Message_recv_for("c1", timeout, FALSE)

\* Message.recv(block=True) when recv_for is over.  It yielded None: `while
\* not m` calls it again.  It yielded a message and ended without an
\* exception (the handler returned, or recv_for has ended its ReleaseMessage
\* or AckMessage): recv is over and process goes on with its loop.  An
\* exception out of recv_for leaves recv and process.
Message_recv_block ==
    /\ proc.pc = "recv"
    /\ pc["c1"] = "exit"
    /\ pc' = Upd(pc, "c1", "idle")
    /\ proc' = IF res["c1"].result = "none"
               THEN [proc EXCEPT !.timeouts = @ + 1]
               ELSE IF res["c1"].result = "returned"
               THEN [proc EXCEPT
                        !.dispatched = @ + 1,
                        !.released = IF res["c1"].terminal = "release"
                                     THEN @ + 1 ELSE @,
                        !.pc = "loop"]
               ELSE [proc EXCEPT !.pc = "raised"]
    /\ UNCHANGED <<engine, options, now, pgVars, files, prod, kw, cur, loc, res,
                   hist, ncalls, calc, adm, iface, codec, undecodable, app, exc>>

\* A producer of one message, the process of c1 with handlers that return, return False or
\* raise an error, and the consumer c2, which does not wait and whose
\* handlers return.
NextProcess ==
    \/ Tick
    \/ ProducerSteps(1)
    \/ \E c \in Consumers : EngineSteps(c)
    \/ \E n \in 0..MaxCount : Message_process(n)
    \/ Message_process_loop
    \/ \E t \in {0, 1} : Message_recv_call(t)
    \/ Message_recv_block
    \/ \E o \in {"return", "false", "error"} : Message_handle("c1", o, 0)
    \/ Message_recv_for("c2", 0, FALSE)
    \/ Message_handle("c2", "return", 0)

SpecProcess == Init /\ [][NextProcess]_vars

\* C39: process(count = N) with N > 0 returns only after it has received
\* and dispatched exactly N messages, the released ones among them and the
\* recv_for calls that timed out not among them; it ends otherwise only
\* when a handler raises an error; with count = 0 it does not return.
ProcessDispatchesCount ==
    /\ proc.pc = "returned"
          => proc.max_count > 0 /\ proc.dispatched = proc.max_count
    /\ proc.pc = "recv" /\ proc.max_count > 0
          => proc.dispatched < proc.max_count
    /\ proc.max_count = 0 => proc.pc # "returned"
    /\ proc.pc = "raised" /\ proc.max_count > 0 => res["c1"].outcome = "error"

\* ============================================================ SQS._send
\* _send handing delay_seconds on as it is.
MutDelayUnclamped(delay_seconds) == delay_seconds

\* SQS._send: `if delay_seconds > 900: ... delay_seconds = 900`.
SQS_delay_seconds(delay_seconds) ==
    IF delay_seconds > SqsMaxDelaySeconds THEN SqsMaxDelaySeconds
    ELSE delay_seconds

\* SQS._send: delay_seconds = kwargs.get("delay_seconds", 0), the warning
\* for a value over 900 (Interface.log), and
\* q.send_message(MessageBody=body, DelaySeconds=delay_seconds), whose
\* receipt is returned.  calc.out is the DelaySeconds of the backend call.
SQS_send ==
    /\ engine = "sqs"
    /\ calc.out = Unset
    /\ calc' = [calc EXCEPT !.out = SQS_delay_seconds(calc.delay)]
    /\ UNCHANGED <<engine, options, now, pgVars, files, prod, pc, kw, cur, loc,
                   res, hist, ncalls, adm, iface, codec,
                   undecodable, app, exc, proc>>

\* The SQS interface, and a send with some delay_seconds.
InitSqs ==
    /\ engine = "sqs"
    /\ options \in QueueOptionSets
    /\ InitQueue
    /\ calc \in [opts : {NoCalc.opts}, delay : 0..MaxSendDelay,
                 count : {0}, out : {Unset}]
    /\ iface = NoIface
    /\ codec = None
    /\ undecodable = {}
    /\ app = NoApp
    /\ exc = NoExc
    /\ proc = NoProc

NextSqs == SQS_send

SpecSqs == InitSqs /\ [][NextSqs]_vars

====
